---- MODULE Spec2Model ----
(***************************************************************************)
(* A model of taskcluster-lib-pulse: the Client (connection manager) and   *)
(* its Connections (src/src/client.js) and the PulseQueue consumer         *)
(* (src/src/consumer.js), together with the AMQP broker they talk to.      *)
(*                                                                         *)
(* Node.js runs every callback to its next `await` without interruption,   *)
(* so one action is one such run: a timer callback, the continuation of an *)
(* awaited promise, an event of the AMQP library, or a call by the user.   *)
(* The program state is gathered in one record (St); every method is an    *)
(* operator from records to records, so that a handler that calls          *)
(* failed() -> recycle() -> retire() -> listeners is the composition of    *)
(* those operators, as in the code.                                        *)
(*                                                                         *)
(* Time is kept relative: every timer is the number of ticks left until it *)
(* fires, and `elapsed` is min(now - lastConnectionTime,                   *)
(* minReconnectionInterval).                                               *)
(***************************************************************************)
EXTENDS Integers, Sequences, FiniteSets, TLC

\* ---------------------------------------------------------------- bounds
MaxConns == 3                 \* Connections one Client creates in a run
PqMaxConns == 2               \* the same, once a PulseQueue has been started
MinReconnectionInterval == 2  \* ticks (client.js:88, scaled)
RetirementDelay == 1          \* ticks (client.js:87, scaled)
NumMsgs == 1                  \* messages published to the exchange
MaxKeyLen == 7                \* characters of a routing key
MaxRefLen == 3                \* entries of a routingKeyReference
MaxRunning == 2               \* runs of the consume callback in progress, per message
Prefetch == 2                 \* options.prefetch (consumer.js:17, scaled)

Conns == 1..MaxConns
Msgs == 1..NumMsgs
Slots == 1..MaxRunning
NoTimer == -1
Null == 0                     \* no channel / no consumer tag (ids are Connection ids)
StopId == 0                   \* the _shutdown() run started by PulseQueue.stop()
ShutIds == 0..MaxConns        \* the others: the `retiring` listener of a Connection
NoCb == -1                    \* idleCallback = null

VARIABLES
  running,            \* Client.running
  connections,        \* Client.connections: ids, newest first
  connectionCounter,  \* Client.connectionCounter
  elapsed,            \* min(now - Client.lastConnectionTime, MinReconnectionInterval)
  interval,           \* Client._interval is armed
  connectTimer,       \* per Connection: ticks until the setTimeout of recycle() fires
  state,              \* Connection.state ("absent": not created yet)
  amqp,               \* Connection.amqp: "null", or the handle, "open" or "closed"
  dialing,            \* amqplib.connect() of this Connection is pending
  retireTimer,        \* per Connection: ticks until the setTimeout of retire() fires
  closing,            \* retire() awaits amqp.close()
  stopPc,             \* Client.stop(): "none", "waiting", "resolved"
  stopWait,           \* Connections whose `finished` stop() still awaits
  startPc,            \* PulseQueue.start(): "init", "waitConn", "open", "declare", "done", "threw"
  startConn,          \* the Connection start() got from withConnection
  listening,          \* client.on('connected', this._handleConnection) is registered
  pqRunning,          \* PulseQueue.running
  channel,            \* PulseQueue.channel (Null, or the channel of that Connection)
  consumerTag,        \* PulseQueue.consumerTag (Null, or the tag on that channel)
  processingMessages, \* PulseQueue.processingMessages
  idleCallback,       \* PulseQueue.idleCallback: NoCb, or the _shutdown() run it resumes
  hc,                 \* _handleConnection(conn): "none", "setup", "consume", "done", "failed"
  shut,               \* the _shutdown() runs: [pc, channel, tag]
  chan,               \* the channel _handleConnection opened: "none", "open", "closed"
  consumerOn,         \* broker: a consumer is subscribed on that channel
  queueBound,         \* broker: the queue is declared and bound
  msg,                \* broker: per message [st, chan, redelivered]
  del,                \* per message: the runs of the consume callback in progress
  constructed,        \* new PulseQueue(...): "none", "ok", "threw"
  queueName,          \* PulseQueue.queueName, a JavaScript value
  exclusiveQueue,     \* PulseQueue.exclusiveQueue, a JavaScript value
  errors,             \* the `error` events the PulseQueue has emitted: [conn, code]
  wc,                 \* a call of Client.withChannel(fn) by the user: [pc, conn, fn, opened, closed]
  connectionString,   \* Client.connectionString
  yielded,            \* the connection string the credential provider yielded at its latest invocation
  dialed,             \* per Connection: the URL amqplib.connect was called with, or "none"
  queues,             \* the queue names _createAndBindQueue made: [slugs, start, hc], slugs counting the slugs generated
  content,            \* per message: [json, key, ref], what it carries and its exchange's routingKeyReference
  late,               \* per Connection: the handle of a dial that resolved after the Connection was retired: "none", "open", "closed"
  parse,              \* a run of the routing-key parsing of _handleMessage: [pc, key, ref, routing, threw]
  log,                \* history, per Connection: its dial and the events it emitted, in order
  last,               \* history: the run of the consume callback that completed in the latest step
  sinceDial           \* history: min(ticks since the last amqplib.connect, MinReconnectionInterval)

vars == <<running, connections, connectionCounter, elapsed, interval, connectTimer,
          state, amqp, dialing, retireTimer, closing, stopPc, stopWait,
          startPc, startConn, listening, pqRunning, channel, consumerTag,
          processingMessages, idleCallback, hc, shut, chan, consumerOn, queueBound,
          msg, del, constructed, queueName, exclusiveQueue, errors, wc, connectionString, yielded, dialed, late, queues, content, parse, log,
          last, sinceDial>>

NoDelivery == [st |-> "none", chan |-> Null, redelivered |-> FALSE]

\* A completed run of the consume callback: the message, the channel it came
\* on and whether that channel was still open, the delivery's redelivered flag,
\* whether _handleMessage threw, and whether it did so before it called the
\* user's handler (internal), whether the inner block threw (threw2), the
\* ack/nack calls made (acts) and those that reached the broker (performed),
\* the calls of monitor.reportError, and whether conn.failed() was called.
NoLast ==
  [m |-> Null, chan |-> Null, open |-> FALSE, redelivered |-> FALSE, threw |-> FALSE,
   internal |-> FALSE, threw2 |-> FALSE, acts |-> <<>>, performed |-> 0, reported |-> 0,
   failed |-> FALSE]

\* The program state as one record, and the step that installs a record.
\* (`last` describes one step only: every step starts with none.)
St ==
  [running |-> running, connections |-> connections,
   connectionCounter |-> connectionCounter, elapsed |-> elapsed,
   interval |-> interval, connectTimer |-> connectTimer, state |-> state,
   amqp |-> amqp, dialing |-> dialing, retireTimer |-> retireTimer,
   closing |-> closing, stopPc |-> stopPc, stopWait |-> stopWait,
   sinceDial |-> sinceDial, last |-> NoLast,
   startPc |-> startPc, startConn |-> startConn, listening |-> listening,
   pqRunning |-> pqRunning, channel |-> channel, consumerTag |-> consumerTag,
   processingMessages |-> processingMessages, idleCallback |-> idleCallback,
   hc |-> hc, shut |-> shut, chan |-> chan, consumerOn |-> consumerOn,
   queueBound |-> queueBound, msg |-> msg, del |-> del,
   constructed |-> constructed, queueName |-> queueName,
   exclusiveQueue |-> exclusiveQueue, errors |-> errors, wc |-> wc,
   connectionString |-> connectionString, yielded |-> yielded, dialed |-> dialed,
   late |-> late, queues |-> queues, content |-> content, parse |-> parse, log |-> log]

\* The bound on the Connections of a run.
ConnCap(s) == IF s.startPc = "init" THEN MaxConns ELSE PqMaxConns

Set(s) ==
  /\ s.connectionCounter <= ConnCap(s)
  /\ running' = s.running
  /\ connections' = s.connections
  /\ connectionCounter' = s.connectionCounter
  /\ elapsed' = s.elapsed
  /\ interval' = s.interval
  /\ connectTimer' = s.connectTimer
  /\ state' = s.state
  /\ amqp' = s.amqp
  /\ dialing' = s.dialing
  /\ retireTimer' = s.retireTimer
  /\ closing' = s.closing
  /\ stopPc' = s.stopPc
  /\ stopWait' = s.stopWait
  /\ startPc' = s.startPc
  /\ startConn' = s.startConn
  /\ listening' = s.listening
  /\ pqRunning' = s.pqRunning
  /\ channel' = s.channel
  /\ consumerTag' = s.consumerTag
  /\ processingMessages' = s.processingMessages
  /\ idleCallback' = s.idleCallback
  /\ hc' = s.hc
  /\ shut' = s.shut
  /\ chan' = s.chan
  /\ consumerOn' = s.consumerOn
  /\ queueBound' = s.queueBound
  /\ msg' = s.msg
  /\ del' = s.del
  /\ constructed' = s.constructed
  /\ queueName' = s.queueName
  /\ exclusiveQueue' = s.exclusiveQueue
  /\ errors' = s.errors
  /\ wc' = s.wc
  /\ parse' = s.parse
  /\ connectionString' = s.connectionString
  /\ yielded' = s.yielded
  /\ dialed' = s.dialed
  /\ late' = s.late
  /\ content' = s.content
  /\ queues' = s.queues
  /\ log' = s.log
  /\ sinceDial' = s.sinceDial
  /\ last' = s.last

\* JavaScript values are written as their source text: undefined, null, true,
\* false, numbers, and strings in quotes. ToBoolean of such a value:
Falsy == {"undefined", "null", "false", "0", "NaN", "''"}
Truthy(v) == v \notin Falsy

\* ToNumber of such a value, as its source text, and the global isNaN().
ToNumber(v) ==
  CASE v = "undefined" -> "NaN"
    [] v = "null" -> "0"
    [] v = "true" -> "1"
    [] v = "false" -> "0"
    [] v = "''" -> "0"
    [] v = "'12'" -> "12"
    [] v = "'q'" -> "NaN"
    [] OTHER -> v
IsNaN(v) == ToNumber(v) = "NaN"

\* No call of withChannel() under way. `fn` is how the caller's function will
\* settle: "throws", or the value it returns.
NoCall == [pc |-> "none", conn |-> 0, fn |-> "undefined", opened |-> FALSE, closed |-> FALSE]
ReturnValues == {"undefined", "null", "0", "1", "NaN", "true", "false", "''", "'q'", "'12'"}

\* -------------------------------------------- routing keys (_handleMessage)

\* A routing key is a string: a sequence of characters. A routingKeyReference
\* is a sequence of entries; entry i has the name i, and the entry itself is
\* its multipleWords flag.
Chars == {"a", "b", "."}
RECURSIVE Strings(_)
Strings(n) ==
  IF n = 0 THEN {<<>>}
  ELSE Strings(n - 1) \cup {Append(s, ch) : s \in {x \in Strings(n - 1) : Len(x) = n - 1}, ch \in Chars}
RoutingKeys == Strings(MaxKeyLen)
RECURSIVE Flags(_)
Flags(n) ==
  IF n = 0 THEN {<<>>}
  ELSE Flags(n - 1) \cup {Append(r, b) : r \in {x \in Flags(n - 1) : Len(x) = n - 1}, b \in BOOLEAN}
References == Flags(MaxRefLen)

\* The value `undefined` among strings.
Undefined == <<"undefined">>

\* String.prototype.split('.')
RECURSIVE Split(_)
Split(s) ==
  IF \A i \in 1..Len(s) : s[i] # "." THEN <<s>>
  ELSE LET i == CHOOSE k \in 1..Len(s) : s[k] = "." /\ \A l \in 1..(k - 1) : s[l] # "."
       IN <<SubSeq(s, 1, i - 1)>> \o Split(SubSeq(s, i + 1, Len(s)))

\* Array.prototype.join('.'): undefined is joined as the empty string.
RECURSIVE Join(_)
Join(parts) ==
  IF parts = <<>> THEN <<>>
  ELSE LET h == IF Head(parts) = Undefined THEN <<>> ELSE Head(parts)
       IN IF Len(parts) = 1 THEN h ELSE h \o <<".">> \o Join(Tail(parts))

\* shift() that leaves the array as it is.
ShiftKeeps(keys) ==
  IF keys = <<>> THEN [value |-> Undefined, rest |-> <<>>]
  ELSE [value |-> Head(keys), rest |-> keys]

\* Array.prototype.shift()
Shift(keys) ==
  IF keys = <<>> THEN [value |-> Undefined, rest |-> <<>>]
  ELSE [value |-> Head(keys), rest |-> Tail(keys)]

\* pop() that takes from the front.
PopFront(keys) ==
  IF keys = <<>> THEN [value |-> Undefined, rest |-> <<>>]
  ELSE [value |-> Head(keys), rest |-> Tail(keys)]

\* Array.prototype.pop()
Pop(keys) ==
  IF keys = <<>> THEN [value |-> Undefined, rest |-> <<>>]
  ELSE [value |-> keys[Len(keys)], rest |-> SubSeq(keys, 1, Len(keys) - 1)]

\* for (i = 0; i < reference.length; i++) { if (ref.multipleWords) break;
\*   routing[ref.name] = keys.shift(); }
RECURSIVE Forward(_, _, _, _)
Forward(ref, i, keys, routing) ==
  IF i > Len(ref) \/ ref[i] THEN [i |-> i, keys |-> keys, routing |-> routing]
  ELSE Forward(ref, i + 1, Shift(keys).rest, (i :> Shift(keys).value) @@ routing)

\* for (j = reference.length - 1; j > i; j--) { if (ref.multipleWords) break;
\*   routing[ref.name] = keys.pop(); }
RECURSIVE Backward(_, _, _, _, _)
Backward(ref, i, j, keys, routing) ==
  IF j <= i \/ ref[j] THEN [j |-> j, keys |-> keys, routing |-> routing]
  ELSE Backward(ref, i, j - 1, Pop(keys).rest, (j :> Pop(keys).value) @@ routing)

\* The parsing of message.routingKey against a routingKeyReference. The
\* assert(i == j) throws when a second multipleWords entry stopped j.
ParseRoutingKey(key, ref) ==
  LET f == Forward(ref, 1, Split(key), <<>>)
  IN IF f.i <= Len(ref)
     THEN LET b == Backward(ref, f.i, Len(ref), f.keys, f.routing)
          IN IF b.j # f.i THEN [threw |-> TRUE, routing |-> <<>>]
             ELSE [threw |-> FALSE, routing |-> (f.i :> Join(b.keys)) @@ b.routing]
     ELSE [threw |-> FALSE, routing |-> f.routing]

\* The queue name of _createAndBindQueue():
\* this.queueName || `exclusive/${slugid.v4()}`, a slug being the number of
\* slugs generated so far (every slug is new).
NoQueue == [named |-> FALSE, slug |-> 0]
QueueNameOf(s) ==
  IF Truthy(s.queueName) THEN [named |-> TRUE, slug |-> 0]
  ELSE [named |-> FALSE, slug |-> s.queues.slugs + 1]

\* _createAndBindQueue(channel) called by start() (through withChannel) ...
CreateAndBindQueueStart(s) ==
  [s EXCEPT !.queueBound = TRUE, !.queues.start = QueueNameOf(s),
            !.queues.slugs = QueueNameOf(s).slug]

\* ... and by _handleConnection(conn).
CreateAndBindQueueHc(s, c) ==
  [s EXCEPT !.queueBound = TRUE, !.queues.hc[c] = QueueNameOf(s),
            !.queues.slugs = QueueNameOf(s).slug]

\* What a message carries: whether its content is JSON, its routing key, and
\* the routingKeyReference of the binding of its exchange.
GoodContent == [json |-> TRUE, key |-> <<"a", ".", "b">>, ref |-> <<FALSE, TRUE>>]
BadContents ==
  {[GoodContent EXCEPT !.json = FALSE],
   [GoodContent EXCEPT !.ref = <<TRUE, TRUE>>]}

\* _handleMessage(msg) up to its call of the user's handler throws:
\* JSON.parse(msg.content...) or the assert of the routing-key parsing.
HandleMessageThrows(ct) ==
  ~ct.json \/ ParseRoutingKey(ct.key, ct.ref).threw

NoParse == [pc |-> "none", key |-> <<>>, ref |-> <<>>, routing |-> <<>>, threw |-> FALSE]

Min(a, b) == IF a < b THEN a ELSE b

RECURSIVE SeqWithout(_, _)
SeqWithout(q, x) ==
  IF q = <<>> THEN <<>>
  ELSE IF Head(q) = x THEN SeqWithout(Tail(q), x)
       ELSE <<Head(q)>> \o SeqWithout(Tail(q), x)

\* ---------------------------------------------------------------- broker

\* A channel is closed (by channel.close(), by a channel error, or with its
\* connection): its consumer is gone and the broker requeues what it had
\* delivered there and not seen settled, marked redelivered.
BrokerChannelClosed(s, c) ==
  [s EXCEPT !.chan[c] = "closed",
            !.consumerOn[c] = FALSE,
            !.msg = [m \in Msgs |->
                       IF @[m].st = "unacked" /\ @[m].chan = c
                       THEN [st |-> "ready", chan |-> Null, redelivered |-> TRUE]
                       ELSE @[m]]]

\* The broker's side of a closed AMQP connection.
BrokerConnectionClosed(s, c) ==
  IF s.chan[c] = "open" THEN BrokerChannelClosed(s, c) ELSE s

\* ------------------------------------------------- PulseQueue._shutdown()

\* A _shutdown() run that no longer uses what it captured. Only stop()
\* awaits the promise of its run; the `retiring` listener drops it, so its run
\* is over ("done") wherever it ends.
ShutEnd(i, pc) ==
  [pc |-> IF i = StopId THEN pc ELSE "done", channel |-> Null, tag |-> Null]

\* if (channel) { this.channel = null; await channel.close(); }
\* close() on a channel that is closed already throws.
ShutdownClose(s, i) ==
  LET ch == s.shut[i].channel
  IN IF ch = Null THEN [s EXCEPT !.shut[i] = ShutEnd(i, "done")]
     ELSE IF s.chan[ch] = "open"
          THEN BrokerChannelClosed([s EXCEPT !.channel = Null, !.shut[i] = ShutEnd(i, "close")], ch)
          ELSE [s EXCEPT !.channel = Null, !.shut[i] = ShutEnd(i, "threw")]

\* if (this.processingMessages > 0) { await new Promise(... idleCallback ...) }
ShutdownIdle(s, i) ==
  IF s.processingMessages > 0
  THEN [s EXCEPT !.idleCallback = i, !.shut[i].pc = "idle"]
  ELSE ShutdownClose(s, i)

\* _shutdown() up to its first `await`. cancel() on a closed channel throws.
Shutdown(s, i) ==
  LET ch == s.channel
      tag == s.consumerTag
      s1 == [s EXCEPT !.shut[i] = [pc |-> "run", channel |-> ch, tag |-> tag]]
  IN IF ch # Null /\ tag # Null
     THEN IF s1.chan[ch] = "open"
          THEN [s1 EXCEPT !.consumerTag = Null, !.shut[i].pc = "cancel"]
          ELSE [s1 EXCEPT !.consumerTag = Null, !.shut[i] = ShutEnd(i, "threw")]
     ELSE ShutdownIdle(s1, i)

\* ------------------------------------------------------------ Connection

\* An exclusive listener that does not look at client.running.
ExclusiveRetiringAlways(s, c) ==
  IF Truthy(s.exclusiveQueue)
  THEN [s EXCEPT !.errors = @ \cup {[conn |-> c, code |-> "ExclusiveQueueDisconneted"]}]
  ELSE s

\* The second `retiring` listener of _handleConnection, for an exclusive queue:
\* if (this.client.running) { err.code = ...; this.emit('error', err) }
ExclusiveRetiring(s, c) ==
  IF Truthy(s.exclusiveQueue) /\ s.running
  THEN [s EXCEPT !.errors = @ \cup {[conn |-> c, code |-> "ExclusiveQueueDisconneted"]}]
  ELSE s

\* Listeners of a Connection's `retiring` event: the ones _handleConnection
\* registers once its consumer is set up.
OnRetiring(s, c) ==
  IF s.hc[c] = "done" THEN ExclusiveRetiring(Shutdown(s, c), c) ELSE s

\* retire() that does not look at the state.
RetireAgain(s, c) ==
  LET s1 == OnRetiring([s EXCEPT !.state[c] = "retiring",
                                 !.log[c] = Append(@, "retiring")], c)
  IN [s1 EXCEPT !.retireTimer[c] = RetirementDelay]

\* Connection.retire() up to its `await` of the retirement delay.
Retire(s, c) ==
  IF s.state[c] \in {"retiring", "finished"} THEN s
  ELSE LET s1 == OnRetiring([s EXCEPT !.state[c] = "retiring",
                                      !.log[c] = Append(@, "retiring")], c)
       IN [s1 EXCEPT !.retireTimer[c] = RetirementDelay]

\* recycle() that starts to connect at once.
ConnectDelayNone(s) == 0

\* The delay recycle() gives to setTimeout:
\* now < earliestConnectionTime ? earliestConnectionTime - now : 0
ConnectDelay(s) == MinReconnectionInterval - s.elapsed

\* recycle() that leaves the current Connection as it is.
RecycleKeepsCurrent(s) ==
  LET id == s.connectionCounter + 1
  IN IF ~s.running THEN s
     ELSE IF id > MaxConns THEN [s EXCEPT !.connectionCounter = id]
     ELSE [s EXCEPT !.connectionCounter = id,
                    !.state[id] = "waiting",
                    !.connectTimer[id] = ConnectDelay(s),
                    !.connections = <<id>> \o @]

\* Client.recycle()
Recycle(s) ==
  LET s1 == IF Len(s.connections) > 0 THEN Retire(s, Head(s.connections)) ELSE s
      id == s1.connectionCounter + 1
  IN IF ~s1.running THEN s1
     ELSE IF id > MaxConns THEN [s1 EXCEPT !.connectionCounter = id]
     ELSE [s1 EXCEPT !.connectionCounter = id,
                     !.state[id] = "waiting",
                     !.connectTimer[id] = ConnectDelay(s1),
                     !.connections = <<id>> \o @]

\* Connection.failed()
Failed(s, c) ==
  IF s.state[c] = "retired" \/ s.state[c] = "finished" THEN s
  ELSE Recycle(s)

\* Client.activeConnection (Null: undefined)
ActiveConnection(s) ==
  IF s.running /\ Len(s.connections) > 0 /\ s.state[Head(s.connections)] = "connected"
  THEN Head(s.connections) ELSE Null

\* The catch of _handleConnection: monitor.reportError(err); conn.failed()
HcCatch(s, c) == Failed([s EXCEPT !.hc[c] = "failed"], c)

\* _handleConnection(conn) up to its `await` of createChannel()
HandleConnection(s, c) ==
  IF ~s.pqRunning THEN s
  ELSE IF s.amqp[c] = "null" THEN HcCatch(s, c)
  ELSE [s EXCEPT !.hc[c] = "setup"]

\* start() after withChannel(): client.on('connected', ...) and the call of
\* _handleConnection for a Connection that is active already.
StartSubscribe(s) ==
  LET s1 == [s EXCEPT !.listening = TRUE, !.startPc = "done"]
      active == ActiveConnection(s1)
  IN IF active # Null THEN HandleConnection(s1, active) ELSE s1

\* Listeners of the Client's `connected` event, in the order they were
\* registered: the once-listener of withConnection(), then _handleConnection.
OnClientConnected(s, c) ==
  LET s0 == IF s.wc.pc = "waitConn"
            THEN [s EXCEPT !.wc.pc = "open", !.wc.conn = c] ELSE s
      s1 == IF s0.startPc = "waitConn"
            THEN [s0 EXCEPT !.startPc = "open", !.startConn = c] ELSE s0
  IN IF s1.listening THEN HandleConnection(s1, c) ELSE s1

\* A decrement at the end of the try block instead of a `finally`.
FinallyInTry(s) ==
  LET s1 == IF s.last.threw2 THEN s ELSE [s EXCEPT !.processingMessages = @ - 1]
  IN IF s1.processingMessages = 0 /\ s1.idleCallback # NoCb
     THEN IF s1.shut[s1.idleCallback].pc = "idle"
          THEN ShutdownClose(s1, s1.idleCallback) ELSE s1
     ELSE s1

\* The `finally` of the consume callback: the counter, and the idle waiter,
\* whose _shutdown() run resumes before any other event is handled.
Finally(s) ==
  LET s1 == [s EXCEPT !.processingMessages = @ - 1]
  IN IF s1.processingMessages = 0 /\ s1.idleCallback # NoCb
     THEN IF s1.shut[s1.idleCallback].pc = "idle"
          THEN ShutdownClose(s1, s1.idleCallback) ELSE s1
     ELSE s1

\* What the broker does with a message that is settled.
Settled(act) ==
  CASE act = "ack" -> [st |-> "acked", chan |-> Null, redelivered |-> FALSE]
    [] act = "nackRequeue" -> [st |-> "ready", chan |-> Null, redelivered |-> TRUE]
    [] act = "nackDrop" -> [st |-> "dropped", chan |-> Null, redelivered |-> TRUE]

\* channel.ack(msg) or channel.nack(msg, false, requeue) in the consume
\* callback. On a closed channel the call throws.
Terminal(s, m, act) ==
  IF s.chan[s.last.chan] = "open"
  THEN [s EXCEPT !.last.acts = Append(@, act), !.last.performed = @ + 1,
                 !.msg[m] = Settled(act)]
  ELSE [s EXCEPT !.last.acts = Append(@, act), !.last.threw2 = TRUE]

ReportError(s) == [s EXCEPT !.last.reported = @ + 1]

\* The outer catch of the consume callback, for what the inner block threw:
\* monitor.reportError(err, ...); conn.failed()
OuterCatch(s) ==
  IF s.last.threw2
  THEN Failed([ReportError(s) EXCEPT !.last.failed = TRUE], s.last.chan)
  ELSE s

\* An inner try whose nack does not end it: the ack follows.
InnerFallsThrough(s, m) ==
  LET s1 == IF ~s.last.threw THEN s
            ELSE IF s.last.redelivered THEN ReportError(Terminal(s, m, "nackDrop"))
            ELSE Terminal(s, m, "nackRequeue")
  IN Terminal(s1, m, "ack")

\* An inner try that reads the redelivered flag the wrong way round.
InnerSwapped(s, m) ==
  IF ~s.last.threw THEN Terminal(s, m, "ack")
  ELSE IF ~s.last.redelivered
       THEN LET s1 == Terminal(s, m, "nackDrop")
            IN IF s1.last.threw2 THEN s1 ELSE ReportError(s1)
       ELSE Terminal(s, m, "nackRequeue")

\* The inner try of the consume callback once _handleMessage() has settled:
\* ack, or on a failure nack, by the delivery's redelivered flag.
Inner(s, m) ==
  IF ~s.last.threw THEN Terminal(s, m, "ack")
  ELSE IF s.last.redelivered
       THEN LET s1 == Terminal(s, m, "nackDrop")
            IN IF s1.last.threw2 THEN s1 ELSE ReportError(s1)
       ELSE Terminal(s, m, "nackRequeue")

\* The consume callback from the point where _handleMessage() settles.
AfterHandler(s, m, k, threw) ==
  LET d == s.del[m][k]
      s1 == [s EXCEPT !.del[m][k] = NoDelivery,
                      !.last = [NoLast EXCEPT !.m = m, !.chan = d.chan,
                                              !.open = s.chan[d.chan] = "open",
                                              !.redelivered = d.redelivered,
                                              !.threw = threw]]
  IN Finally(OuterCatch(Inner(s1, m)))

\* The consume callback for a delivery whose _handleMessage() throws before it
\* calls the user's handler: the whole callback is one run.
InternalFailure(s, m, c, redelivered) ==
  LET s1 == [s EXCEPT !.last = [NoLast EXCEPT !.m = m, !.chan = c, !.open = TRUE,
                                              !.redelivered = redelivered,
                                              !.threw = TRUE, !.internal = TRUE]]
  IN Finally(OuterCatch(Inner(s1, m)))

\* A `finished` whose Connection stays in the list.
OnFinishedKeeps(s, c) ==
  IF s.stopPc = "waiting" /\ c \in s.stopWait
  THEN [s EXCEPT !.stopWait = @ \ {c},
                 !.stopPc = IF s.stopWait \ {c} = {} THEN "resolved" ELSE @]
  ELSE s

\* stop() that resolves with the first `finished` it sees.
OnFinishedFirst(s, c) ==
  LET s1 == [s EXCEPT !.connections = SeqWithout(@, c)]
  IN IF s1.stopPc = "waiting" /\ c \in s1.stopWait
     THEN [s1 EXCEPT !.stopWait = {}, !.stopPc = "resolved"]
     ELSE s1

\* The Connection's `finished` event: the Client's listener of recycle() and
\* the once-listeners of Client.stop().
OnFinished(s, c) ==
  LET s1 == [s EXCEPT !.connections = SeqWithout(@, c)]
  IN IF s1.stopPc = "waiting" /\ c \in s1.stopWait
     THEN [s1 EXCEPT !.stopWait = @ \ {c},
                     !.stopPc = IF s1.stopWait \ {c} = {} THEN "resolved" ELSE @]
     ELSE s1

\* Connection.retire() after amqp.close() has settled.
Finish(s, c) ==
  LET s1 == [s EXCEPT !.amqp[c] = "null", !.state[c] = "finished", !.closing[c] = FALSE,
                      !.log[c] = Append(@, "finished")]
  IN OnFinished(s1, c)

\* connect() that does not look at the state.
ConnectAnyState(s, c) ==
  [s EXCEPT !.state[c] = "connecting", !.dialing[c] = TRUE, !.sinceDial = 0,
            !.dialed[c] = s.connectionString,
            !.log[c] = Append(@, "dial")]

\* connect() that never dials.
ConnectNever(s, c) == s

\* Connection.connect() up to its `await` of amqplib.connect
Connect(s, c) ==
  IF s.state[c] # "waiting" THEN s
  ELSE [s EXCEPT !.state[c] = "connecting", !.dialing[c] = TRUE, !.sinceDial = 0,
                 !.dialed[c] = s.connectionString,
                 !.log[c] = Append(@, "dial")]

\* connect() that does not look at the state once the dial has resolved.
ConnectedAnyState(s, c) ==
  LET s1 == [s EXCEPT !.dialing[c] = FALSE, !.amqp[c] = "open", !.state[c] = "connected",
                      !.log[c] = Append(@, "connected")]
  IN OnClientConnected(s1, c)

\* connect() that keeps the handle whatever the state.
ConnectedStoresLate(s, c) ==
  LET s0 == [s EXCEPT !.dialing[c] = FALSE]
  IN IF s0.state[c] # "connecting" THEN [s0 EXCEPT !.amqp[c] = "open", !.late[c] = "open"]
     ELSE LET s1 == [s0 EXCEPT !.amqp[c] = "open", !.state[c] = "connected",
                                !.log[c] = Append(@, "connected")]
          IN OnClientConnected(s1, c)

\* Connection.connect() after amqplib.connect has resolved: a Connection no
\* longer connecting closes the handle and returns.
Connected(s, c) ==
  LET s0 == [s EXCEPT !.dialing[c] = FALSE]
  IN IF s0.state[c] # "connecting" THEN [s0 EXCEPT !.late[c] = "closed"]
     ELSE LET s1 == [s0 EXCEPT !.amqp[c] = "open", !.state[c] = "connected",
                                !.log[c] = Append(@, "connected")]
          IN OnClientConnected(s1, c)

\* Client.stop()
StopClient(s) ==
  LET s1 == Recycle([s EXCEPT !.running = FALSE, !.interval = FALSE])
      unfinished == {c \in Conns : \E i \in 1..Len(s1.connections) :
                        s1.connections[i] = c /\ s1.state[c] # "finished"}
  IN IF unfinished = {} THEN [s1 EXCEPT !.stopPc = "resolved"]
     ELSE [s1 EXCEPT !.stopPc = "waiting", !.stopWait = unfinished]

\* ---------------------------------------------------------------- actions

\* The state after `new Client(...)`: running, recycle() called once (the
\* first Connection waits for its connect timer, delay 0 since
\* lastConnectionTime = 0), and the periodic timer armed.
InitState ==
  /\ running = TRUE
  /\ connections = <<1>>
  /\ connectionCounter = 1
  /\ elapsed = MinReconnectionInterval
  /\ interval = TRUE
  /\ connectTimer = [c \in Conns |-> IF c = 1 THEN 0 ELSE NoTimer]
  /\ state = [c \in Conns |-> IF c = 1 THEN "waiting" ELSE "absent"]
  /\ amqp = [c \in Conns |-> "null"]
  /\ dialing = [c \in Conns |-> FALSE]
  /\ retireTimer = [c \in Conns |-> NoTimer]
  /\ closing = [c \in Conns |-> FALSE]
  /\ stopPc = "none"
  /\ stopWait = {}
  /\ startPc = "init"
  /\ startConn = Null
  /\ listening = FALSE
  /\ pqRunning = TRUE
  /\ channel = Null
  /\ consumerTag = Null
  /\ processingMessages = 0
  /\ idleCallback = NoCb
  /\ hc = [c \in Conns |-> "none"]
  /\ shut = [i \in ShutIds |-> [pc |-> "none", channel |-> Null, tag |-> Null]]
  /\ chan = [c \in Conns |-> "none"]
  /\ consumerOn = [c \in Conns |-> FALSE]
  /\ queueBound = FALSE
  /\ msg = [m \in Msgs |-> [st |-> "unpublished", chan |-> Null, redelivered |-> FALSE]]
  /\ del = [m \in Msgs |-> [k \in Slots |-> NoDelivery]]
  /\ errors = {}
  /\ wc = NoCall
  /\ yielded = "amqps://u1"
  /\ connectionString = yielded
  /\ dialed = [c \in Conns |-> "none"]
  /\ late = [c \in Conns |-> "none"]
  /\ content = [m \in Msgs |-> GoodContent]
  /\ queues = [slugs |-> 0, start |-> NoQueue, hc |-> [c \in Conns |-> NoQueue]]
  /\ log = [c \in Conns |-> <<>>]
  /\ last = NoLast
  /\ sinceDial = MinReconnectionInterval

\* ... and a PulseQueue constructed for a named queue.
Init ==
  /\ InitState
  /\ parse = NoParse
  /\ constructed = "ok"
  /\ queueName = "'q'"
  /\ exclusiveQueue = "undefined"

\* The same with no PulseQueue constructed yet.
InitUnconstructed ==
  /\ InitState
  /\ parse = NoParse
  /\ constructed = "none"
  /\ queueName = "undefined"
  /\ exclusiveQueue = "undefined"

\* One tick of the clock; no timer that is due is left behind.
Tick ==
  /\ \A c \in Conns : connectTimer[c] # 0 /\ retireTimer[c] # 0
  /\ Set([St EXCEPT
       !.connectTimer = [c \in Conns |-> IF @[c] > 0 THEN @[c] - 1 ELSE @[c]],
       !.retireTimer = [c \in Conns |-> IF @[c] > 0 THEN @[c] - 1 ELSE @[c]],
       !.elapsed = Min(@ + 1, MinReconnectionInterval),
       !.sinceDial = Min(@ + 1, MinReconnectionInterval)])

\* The setTimeout callback of recycle(): lastConnectionTime = now; newConn.connect()
ConnectTimerFires(c) ==
  /\ connectTimer[c] = 0
  /\ Set(Connect([St EXCEPT !.connectTimer[c] = NoTimer, !.elapsed = 0], c))

\* amqplib.connect resolves.
DialOk(c) ==
  /\ dialing[c]
  /\ Set(Connected(St, c))

\* amqplib.connect rejects: the catch of connect() calls failed().
DialFail(c) ==
  /\ dialing[c]
  /\ Set(Failed([St EXCEPT !.dialing[c] = FALSE], c))

\* The handle's `error` / `close` events: the connection is gone, and the
\* listeners call failed() while the Connection is connected.
AmqpClosed(c) ==
  /\ amqp[c] = "open"
  /\ ~closing[c]
  /\ LET s1 == BrokerConnectionClosed([St EXCEPT !.amqp[c] = "closed"], c)
     IN Set(IF s1.state[c] = "connected" THEN Failed(s1, c) ELSE s1)

\* The retirement delay of retire() is over: amqp.close() is called. With no
\* handle, or a handle closed already, the call throws and retire() finishes
\* in the same run; else the connection is closing from here on.
RetireTimerFires(c) ==
  /\ retireTimer[c] = 0
  /\ LET s1 == [St EXCEPT !.retireTimer[c] = NoTimer]
     IN Set(IF s1.amqp[c] # "open" THEN Finish(s1, c)
            ELSE BrokerConnectionClosed(
                   [s1 EXCEPT !.closing[c] = TRUE, !.amqp[c] = "closed"], c))

\* amqp.close() settles.
RetireClosed(c) ==
  /\ closing[c]
  /\ Set(Finish(St, c))

\* The setInterval callback of the constructor.
IntervalFires ==
  /\ interval
  /\ Set(Recycle(St))

\* The user calls client.recycle().
UserRecycle ==
  /\ Set(Recycle(St))

\* The user calls connection.failed().
UserFailed(c) ==
  /\ state[c] # "absent"
  /\ Set(Failed(St, c))

\* The user calls client.stop().
Stop ==
  /\ running
  /\ Set(StopClient(St))

\* ------------------------------------------------------ consumer actions

\* The finally of withChannel(): returntype is what fn returned, undefined if
\* it threw; if (isNaN(returntype)) { channel.close(); }
WithChannelFinally(s) ==
  LET returntype == IF s.wc.fn = "throws" THEN "undefined" ELSE s.wc.fn
  IN [s EXCEPT !.wc.closed = IsNaN(returntype),
               !.wc.pc = IF s.wc.fn = "throws" THEN "threw" ELSE "done"]

\* The user calls client.withChannel(fn): withConnection() runs the wrapper on
\* the active Connection, up to its `await` of createChannel(), or waits for
\* the next `connected`.
WcCall(r) ==
  /\ wc.pc = "none"
  /\ LET active == ActiveConnection(St)
     IN Set(IF active # Null
            THEN [St EXCEPT !.wc = [NoCall EXCEPT !.pc = "open", !.conn = active, !.fn = r]]
            ELSE [St EXCEPT !.wc = [NoCall EXCEPT !.pc = "waitConn", !.fn = r]])

\* createChannel() of that call settles: fn(channel) is called, or the failure
\* is swallowed (flag = 1) and withChannel() returns.
WcOpened ==
  /\ wc.pc = "open"
  /\ Set(IF amqp[wc.conn] = "open"
         THEN [St EXCEPT !.wc.pc = "fn", !.wc.opened = TRUE]
         ELSE [St EXCEPT !.wc.pc = "done"])

\* fn(channel) settles.
WcFnSettles ==
  /\ wc.pc = "fn"
  /\ Set(WithChannelFinally(St))

\* new PulseQueue({queueName, exclusiveQueue, ...}):
\* assert(queueName || exclusiveQueue, ...)
Construct(s, q, e) ==
  IF Truthy(q) \/ Truthy(e)
  THEN [s EXCEPT !.constructed = "ok", !.queueName = q, !.exclusiveQueue = e]
  ELSE [s EXCEPT !.constructed = "threw"]

\* The options a caller gives for queueName and exclusiveQueue.
QueueNames == {"undefined", "''", "'q'"}
ExclusiveFlags == {"undefined", "false", "true"}

PqConstruct(q, e) ==
  /\ constructed = "none"
  /\ Set(Construct(St, q, e))

\* consume(): new PulseQueue(...).start(), up to the first `await` of
\* withChannel(): createChannel() on the active Connection, or the wait for
\* the next `connected`.
PqStart ==
  /\ constructed = "ok"
  /\ startPc = "init"
  /\ connectionCounter <= PqMaxConns
  /\ LET active == ActiveConnection(St)
     IN Set(IF active # Null
            THEN [St EXCEPT !.startPc = "open", !.startConn = active]
            ELSE [St EXCEPT !.startPc = "waitConn"])

\* createChannel() of withChannel() settles; a failure is swallowed (flag = 1)
\* and start() goes on.
StartOpened ==
  /\ startPc = "open"
  /\ Set(IF amqp[startConn] = "open" THEN [St EXCEPT !.startPc = "declare"]
         ELSE StartSubscribe(St))

\* _createAndBindQueue(channel) of start() settles (assertQueue and the
\* bindQueue calls, which only touch the broker); withChannel() closes the
\* channel, and start() goes on, or throws what fn threw.
StartDeclared ==
  /\ startPc = "declare"
  /\ Set(IF amqp[startConn] = "open"
         THEN StartSubscribe(CreateAndBindQueueStart(St))
         ELSE [St EXCEPT !.startPc = "threw"])

\* createChannel(), prefetch() and _createAndBindQueue() of _handleConnection
\* settle (four awaits that touch only the broker, taken as one step):
\* this.channel = channel, and consume() is sent.
HcDeclared(c) ==
  /\ hc[c] = "setup"
  /\ Set(IF amqp[c] = "open"
         THEN [CreateAndBindQueueHc(St, c) EXCEPT !.chan[c] = "open", !.channel = c,
                                                  !.hc[c] = "consume"]
         ELSE HcCatch(St, c))

\* consume() settles: the consumer is subscribed, consumerTag is stored and
\* the `retiring` listener registered.
HcConsumed(c) ==
  /\ hc[c] = "consume"
  /\ Set(IF chan[c] = "open"
         THEN [St EXCEPT !.consumerOn[c] = TRUE, !.consumerTag = c, !.hc[c] = "done"]
         ELSE HcCatch(St, c))

\* The channel's `error` event: the channel is closed; conn.failed()
ChannelError(c) ==
  /\ chan[c] = "open"
  /\ hc[c] \in {"consume", "done"}
  /\ Set(Failed(BrokerChannelClosed(St, c), c))

\* A message is published to the exchange (after consume() has returned).
Publish(m) ==
  /\ startPc = "done"
  /\ msg[m].st = "unpublished"
  /\ Set([St EXCEPT !.msg[m].st = IF queueBound THEN "ready" ELSE "unrouted"])

\* The broker delivers a message to a consumer; the consume callback runs up
\* to the `await` of the user's handler, or to its end if _handleMessage()
\* throws before it calls the handler.
Deliver(m, c) ==
  /\ msg[m].st = "ready"
  /\ consumerOn[c]
  /\ chan[c] = "open"
  /\ Cardinality({n \in Msgs : msg[n].st = "unacked" /\ msg[n].chan = c}) < Prefetch
  /\ \E k \in Slots :
       /\ del[m][k].st = "none"
       /\ \A j \in Slots : j < k => del[m][j].st # "none"
       /\ LET s1 == [St EXCEPT !.msg[m].st = "unacked",
                               !.msg[m].chan = c,
                               !.processingMessages = @ + 1]
          IN Set(IF HandleMessageThrows(content[m])
                 THEN InternalFailure(s1, m, c, msg[m].redelivered)
                 ELSE [s1 EXCEPT !.del[m][k] = [NoDelivery EXCEPT !.st = "running", !.chan = c,
                                                  !.redelivered = msg[m].redelivered]])

\* A message that is not JSON, or whose exchange has a routingKeyReference
\* with two multipleWords entries, is published.
PublishBad(m, ct) ==
  /\ startPc = "done"
  /\ msg[m].st = "unpublished"
  /\ Set([St EXCEPT !.msg[m].st = IF queueBound THEN "ready" ELSE "unrouted",
                    !.content[m] = ct])

\* The user's handler resolves.
HandlerReturns(m, k) ==
  /\ del[m][k].st = "running"
  /\ Set(AfterHandler(St, m, k, FALSE))

\* The user's handler throws.
HandlerThrows(m, k) ==
  /\ del[m][k].st = "running"
  /\ Set(AfterHandler(St, m, k, TRUE))

\* channel.cancel() of a _shutdown() run settles.
ShutCancelled(i) ==
  /\ shut[i].pc = "cancel"
  /\ LET ch == shut[i].channel
     IN Set(IF chan[ch] = "open"
            THEN ShutdownIdle([St EXCEPT !.consumerOn[ch] =
                                 IF shut[i].tag = ch THEN FALSE ELSE @], i)
            ELSE [St EXCEPT !.shut[i] = ShutEnd(i, "threw")])

\* channel.close() of a _shutdown() run settles.
ShutClosed(i) ==
  /\ shut[i].pc = "close"
  /\ Set([St EXCEPT !.shut[i].pc = "done"])

\* The user calls pq.stop().
PqStop ==
  /\ startPc = "done"
  /\ pqRunning
  /\ Set(Shutdown([St EXCEPT !.pqRunning = FALSE], StopId))

ClientNext ==
  \/ Tick
  \/ \E c \in Conns : ConnectTimerFires(c)
  \/ \E c \in Conns : DialOk(c)
  \/ \E c \in Conns : DialFail(c)
  \/ \E c \in Conns : AmqpClosed(c)
  \/ \E c \in Conns : RetireTimerFires(c)
  \/ \E c \in Conns : RetireClosed(c)
  \/ IntervalFires
  \/ UserRecycle
  \/ Stop

ManagerNext ==
  \/ ClientNext
  \/ \E c \in Conns : UserFailed(c)

ConsumerNext ==
  \/ PqStart
  \/ StartOpened
  \/ StartDeclared
  \/ \E c \in Conns : HcDeclared(c)
  \/ \E c \in Conns : HcConsumed(c)
  \/ \E c \in Conns : ChannelError(c)
  \/ \E m \in Msgs : Publish(m)
  \/ \E m \in Msgs, c \in Conns : Deliver(m, c)
  \/ \E m \in Msgs, k \in Slots : HandlerReturns(m, k)
  \/ \E m \in Msgs, k \in Slots : HandlerThrows(m, k)
  \/ \E i \in ShutIds : ShutCancelled(i)
  \/ \E i \in ShutIds : ShutClosed(i)
  \/ PqStop

Next == ClientNext \/ ConsumerNext

\* The Client alone: no consumer is ever started.
SpecManager == Init /\ [][ManagerNext]_vars

\* The Client with one PulseQueue and the broker.
Spec == Init /\ [][Next]_vars

\* The connection strings a credential provider yields.
Urls == {"amqps://u1", "amqps://u2"}

\* The credential provider is invoked (claimedCredentials claims the
\* namespace again) and yields a connection string. The Client is not
\* involved: it has no reference to a provider.
CredentialsYield ==
  \E u \in Urls : Set([St EXCEPT !.yielded = u])

CredentialsNext ==
  \/ ManagerNext
  \/ CredentialsYield

\* The Client, constructed with the connection string the provider yielded,
\* and the provider.
SpecCredentials == Init /\ [][CredentialsNext]_vars

\* The same with messages that _handleMessage cannot parse.
MessagesNext ==
  \/ Next
  \/ \E m \in Msgs, ct \in BadContents : PublishBad(m, ct)

SpecMessages == Init /\ [][MessagesNext]_vars

\* A message with some routing key arrives for a binding with some
\* routingKeyReference ...
InitParse ==
  /\ InitState
  /\ constructed = "ok"
  /\ queueName = "'q'"
  /\ exclusiveQueue = "undefined"
  /\ \E key \in RoutingKeys, ref \in References :
       parse = [NoParse EXCEPT !.pc = "input", !.key = key, !.ref = ref]

\* ... and _handleMessage parses the key.
HandleMessageParses ==
  /\ parse.pc = "input"
  /\ LET r == ParseRoutingKey(parse.key, parse.ref)
     IN Set([St EXCEPT !.parse.pc = "done", !.parse.routing = r.routing,
                       !.parse.threw = r.threw])

SpecParse == InitParse /\ [][HandleMessageParses]_vars

\* The Client and one call of withChannel() by the user.
WithChannelNext ==
  \/ ClientNext
  \/ \E r \in ReturnValues \cup {"throws"} : WcCall(r)
  \/ WcOpened
  \/ WcFnSettles

SpecWithChannel == Init /\ [][WithChannelNext]_vars

\* A PulseQueue is constructed with any options and set up on the Client's
\* Connections; no message is published.
SetupNext ==
  \/ ClientNext
  \/ \E q \in QueueNames, e \in ExclusiveFlags : PqConstruct(q, e)
  \/ PqStart
  \/ StartOpened
  \/ StartDeclared
  \/ \E c \in Conns : HcDeclared(c)
  \/ \E c \in Conns : HcConsumed(c)
  \/ \E c \in Conns : ChannelError(c)
  \/ \E i \in ShutIds : ShutCancelled(i)
  \/ \E i \in ShutIds : ShutClosed(i)
  \/ PqStop

SpecSetup == InitUnconstructed /\ [][SetupNext]_vars

\* ----------------------------------------------------------------- claims

\* The scheduling the Client relies on: time passes, timers that are due
\* fire, and amqplib.connect() and amqp.close() settle.
ManagerFairness ==
  /\ WF_vars(Tick)
  /\ \A c \in Conns : WF_vars(ConnectTimerFires(c))
  /\ \A c \in Conns : WF_vars(DialOk(c) \/ DialFail(c))
  /\ \A c \in Conns : WF_vars(RetireTimerFires(c))
  /\ \A c \in Conns : WF_vars(RetireClosed(c))

SpecManagerFair == SpecManager /\ ManagerFairness

\* C1: a manager has at most one Connection in state connected, and while one
\* is connected every other Connection it created is retiring or finished.
C1_AtMostOneConnected ==
  \A c \in Conns : state[c] = "connected" =>
    \A d \in Conns \ {c} : state[d] \in {"absent", "retiring", "finished"}

\* C1 witness: a new Connection is connected while the previous one, which
\* was connected too, is still retiring.
C1_Witness ==
  \E c, d \in Conns :
    /\ d < c
    /\ state[c] = "connected"
    /\ state[d] = "retiring"
    /\ amqp[d] = "open"

\* C4: once the manager's stop() has resolved every Connection it created is
\* finished, and from the call of stop() on no Connection is created.
C4_StopLeavesAllFinished ==
  /\ [](stopPc = "resolved" => \A c \in Conns : state[c] \in {"absent", "finished"})
  /\ [][~running => connectionCounter' = connectionCounter /\ ~running']_vars

\* C4 witness: stop() has resolved after it had to wait for two Connections.
C4_Witness ==
  /\ stopPc = "resolved"
  /\ connectionCounter >= 2
  /\ \A c \in 1..connectionCounter : state[c] = "finished"

\* C5 (as claimed): failed() on a Connection that is retiring or finished
\* changes nothing.
C5_FailedWhenRetiredIsNoop ==
  \A c \in Conns : state[c] \in {"retiring", "finished"} => Failed(St, c) = St

\* C6: while the manager runs, a failed Connection is followed by a connected
\* Connection with a larger id; failed() on a connected Connection retires it
\* and creates its successor; a retiring Connection finishes; stop() resolves.
C6_Reconnects ==
  /\ [](\A c \in Conns :
          state[c] = "connected" /\ running /\ connectionCounter < MaxConns =>
            /\ Failed(St, c).state[c] = "retiring"
            /\ Failed(St, c).connectionCounter = connectionCounter + 1
            /\ Failed(St, c).state[connectionCounter + 1] = "waiting")
  /\ \A c \in Conns :
       (state[c] = "retiring" /\ running)
         ~> (~running \/ \E d \in Conns : d > c /\ state[d] = "connected")
  /\ \A c \in Conns : (state[c] = "retiring") ~> (state[c] = "finished")
  /\ (stopPc = "waiting") ~> (stopPc = "resolved")

\* C6 witness: after a failure the failed Connection is finished and a later
\* one is connected.
C6_Witness ==
  \E c, d \in Conns :
    /\ c < d
    /\ state[c] = "finished"
    /\ state[d] = "connected"
    /\ running

\* C7: a dial (amqplib.connect) comes at least minReconnectionInterval after
\* the dial before it.
C7_DialsApart ==
  [][\A c \in Conns :
       state[c] = "waiting" /\ state'[c] = "connecting"
         => sinceDial >= MinReconnectionInterval]_vars

\* C7 witness: Connection 3 dials after Connection 1 did, and Connection 2
\* between them was recycled before its connect timer fired.
C7_Witness ==
  /\ dialing[3]
  /\ state[1] = "retiring" /\ amqp[1] = "open"
  /\ state[2] \in {"retiring", "finished"} /\ amqp[2] = "null" /\ ~dialing[2]

\* C2 (as claimed): once the consumer's stop() has returned, the consumer is
\* subscribed on no channel and the handler is invoked for no further delivery.
C2_StoppedStaysStopped ==
  /\ [](shut[StopId].pc = "done" => \A c \in Conns : ~consumerOn[c])
  /\ [][shut[StopId].pc = "done" => processingMessages' <= processingMessages]_vars

\* C3 (as claimed): a stop() that waits for the in-flight counter is resumed
\* when the counter reaches zero, so it waits only while a handler runs.
C3_StopWaitsOnlyForHandlers ==
  shut[StopId].pc = "idle" => processingMessages > 0

\* C8 (as claimed): every completed run of the consume callback has performed
\* exactly one terminal action on the channel of its delivery.
C8_ExactlyOnePerformed ==
  last.m # Null => last.performed = 1

\* C8 (amended): every completed run of the consume callback makes exactly one
\* ack/nack call on the channel of its delivery; the call is performed if that
\* channel is still open, and else no terminal action is performed and the
\* broker, which requeued the message when the channel closed, keeps it.
C8_ExactlyOneCall ==
  last.m # Null =>
    /\ Len(last.acts) = 1
    /\ last.performed = (IF last.open THEN 1 ELSE 0)
    /\ ~last.open => msg[last.m].st # "unacked" \/ msg[last.m].chan # last.chan

\* C8 witness: a handler completes after its connection has retired and
\* finished, and its one call is not performed.
C8_Witness ==
  /\ last.m # Null
  /\ state[last.chan] = "finished"
  /\ Len(last.acts) = 1
  /\ last.performed = 0

ExpectedCall(l) ==
  IF ~l.threw THEN "ack" ELSE IF l.redelivered THEN "nackDrop" ELSE "nackRequeue"

\* C9 (as claimed): a failure of the handler is nacked with requeue and not
\* reported when the delivery is not redelivered, nacked without requeue and
\* reported once when it is; a success is acked.
C9_Outcome ==
  last.m # Null =>
    /\ last.acts = <<ExpectedCall(last)>>
    /\ last.performed = 1
    /\ last.reported = (IF last.threw /\ last.redelivered THEN 1 ELSE 0)

\* C9 (amended): the same while the channel of the delivery is still open when
\* the handler completes; when it is closed the one call fails, the error is
\* reported once and the message stays with the broker. No message is settled
\* while its handler runs on an open channel.
C9_OutcomeOnOpenChannel ==
  /\ last.m # Null =>
       /\ last.acts = <<ExpectedCall(last)>>
       /\ last.open =>
            /\ last.performed = 1
            /\ last.reported = (IF last.threw /\ last.redelivered THEN 1 ELSE 0)
            /\ msg[last.m] = Settled(ExpectedCall(last))
       /\ ~last.open =>
            /\ last.performed = 0
            /\ last.reported = 1
  /\ \A m \in Msgs, k \in Slots :
       del[m][k].st = "running" /\ chan[del[m][k].chan] = "open" =>
         msg[m].st = "unacked" /\ msg[m].chan = del[m][k].chan

\* C9 witness: the handler has failed for a redelivered delivery on an open
\* channel: the message is dropped and the error reported.
C9_Witness ==
  /\ last.m # Null
  /\ last.threw /\ last.redelivered /\ last.open
  /\ msg[last.m].st = "dropped"
  /\ last.reported = 1

\* C10 (as claimed): a message published after consume() has returned is not
\* lost: it is in the queue, with a handler, acked, or dropped after a failure.
C10_PublishedNotLost ==
  \A m \in Msgs : msg[m].st \in {"unpublished", "ready", "unacked", "acked", "dropped"}

\* C11 (as claimed): when a Connection on which an exclusive-queue consumer
\* has declared its queue begins retiring while the manager runs, the consumer
\* emits an error with code ExclusiveQueueDisconnected for it.
C11_ExclusiveErrorOnRetiring ==
  [][\A c \in Conns :
       /\ Truthy(exclusiveQueue)
       /\ hc[c] \in {"consume", "done"}
       /\ state[c] # "retiring" /\ state'[c] = "retiring"
       /\ running'
       => [conn |-> c, code |-> "ExclusiveQueueDisconnected"] \in errors']_vars

\* C12 (as claimed): when start() has returned, the queue is declared and
\* bound on the broker.
C12_StartedMeansBound ==
  startPc = "done" => queueBound

\* C13 (as claimed): when withChannel() has returned or thrown after it
\* opened a channel, close() has been called on that channel.
C13_ChannelClosedAfterFn ==
  wc.pc \in {"done", "threw"} /\ wc.opened => wc.closed

\* The events a Connection has emitted, in order.
IsEvent(e) == e # "dial"
Events(c) == SelectSeq(log[c], IsEvent)

RECURSIVE IsPrefix(_, _)
IsPrefix(p, q) ==
  \/ p = <<>>
  \/ /\ q # <<>>
     /\ Head(p) = Head(q)
     /\ IsPrefix(Tail(p), Tail(q))

\* C14: the events a Connection has emitted are a prefix of connected,
\* retiring, finished or of retiring, finished.
C14_EventsInOrder ==
  \A c \in Conns :
    \/ IsPrefix(Events(c), <<"connected", "retiring", "finished">>)
    \/ IsPrefix(Events(c), <<"retiring", "finished">>)

\* C14 witness: one Connection has emitted all three events and another was
\* retired and finished without being connected.
C14_Witness ==
  \E c, d \in Conns :
    /\ Events(c) = <<"connected", "retiring", "finished">>
    /\ Events(d) = <<"retiring", "finished">>

\* C15 (as claimed): once the manager's stop() has resolved, the periodic
\* timer and every connect timer of recycle() are cleared.
C15_NoTimerAfterStop ==
  stopPc = "resolved" =>
    /\ ~interval
    /\ \A c \in Conns : connectTimer[c] = NoTimer /\ retireTimer[c] = NoTimer

\* C16: a Connection that was retired before it dialled never dials and never
\* emits connected.
C16_RetiredWaitingNeverDials ==
  \A c \in Conns :
    log[c] # <<>> /\ Head(log[c]) = "retiring" =>
      log[c] \in {<<"retiring">>, <<"retiring", "finished">>}

\* C16 witness: the manager was stopped at once; the connect timer of its
\* only Connection has fired since, and the Connection finished undialled.
C16_Witness ==
  /\ connectionCounter = 1
  /\ stopPc = "resolved"
  /\ connectTimer[1] = NoTimer
  /\ log[1] = <<"retiring", "finished">>

\* C17 (as claimed): a consumer that was constructed has a queueName or is
\* exclusive, and not both.
C17_NameXorExclusive ==
  constructed = "ok" =>
    Truthy(queueName) # (exclusiveQueue = "true")

\* The dot-parts of the key that was parsed, the number of multipleWords
\* entries of the reference and their positions, and a list of strings written
\* with dots between them.
Parts == Split(parse.key)
MultiAt == {i \in 1..Len(parse.ref) : parse.ref[i]}
NumSingle == Len(parse.ref) - Cardinality(MultiAt)
RECURSIVE Dotted(_)
Dotted(l) ==
  IF l = <<>> THEN <<>>
  ELSE IF Len(l) = 1 THEN Head(l)
       ELSE Head(l) \o <<".">> \o Dotted(Tail(l))
Values == [i \in 1..Len(parse.ref) |->
             IF i \in DOMAIN parse.routing /\ parse.routing[i] # Undefined
             THEN parse.routing[i] ELSE <<>>]

\* C18 (as claimed): for a reference with at most one multipleWords entry the
\* values of the parsed routing, joined with dots in reference order, are the
\* routing key.
C18_RoundTrip ==
  parse.pc = "done" /\ Cardinality(MultiAt) <= 1 =>
    ~parse.threw /\ Dotted(Values) = parse.key

\* C18 (amended): the same when the key has more dot-parts than the reference
\* has single-word entries and the reference has a multipleWords entry, or has
\* as many dot-parts as the reference has entries and there is none; and with
\* a multipleWords entry that received the empty value because the key has
\* only as many dot-parts as there are single-word entries, the joined string
\* is not the key.
C18_RoundTripWhenCovered ==
  parse.pc = "done" /\ Cardinality(MultiAt) <= 1 =>
    /\ ~parse.threw
    /\ Cardinality(MultiAt) = 1 /\ Len(Parts) > NumSingle => Dotted(Values) = parse.key
    /\ Cardinality(MultiAt) = 0 /\ Len(Parts) = NumSingle => Dotted(Values) = parse.key
    /\ Cardinality(MultiAt) = 1 /\ Len(Parts) = NumSingle /\ NumSingle > 0
         => Dotted(Values) # parse.key

\* C18 witness: a key of four dot-parts was parsed against a reference whose
\* multipleWords entry stands between two single-word entries.
C18_Witness ==
  /\ parse.pc = "done"
  /\ parse.ref = <<FALSE, TRUE, FALSE>>
  /\ Len(Parts) = 4
  /\ parse.routing[2] = Parts[2] \o <<".">> \o Parts[3]
  /\ Dotted(Values) = parse.key

\* C19: with a multipleWords entry at position k and at least as many
\* dot-parts as single-word entries, every entry before k has the dot-part at
\* its position from the start, every entry after k the dot-part at its
\* position from the end, and entry k the dot-parts between, joined by dots;
\* with no multipleWords entry and as many dot-parts as entries, entry i has
\* dot-part i.
C19_PartsByPosition ==
  parse.pc = "done" =>
    /\ Cardinality(MultiAt) = 1 /\ Len(Parts) >= NumSingle =>
         LET k == CHOOSE i \in MultiAt : TRUE
             n == Len(Parts)
             m == Len(parse.ref)
         IN /\ ~parse.threw
            /\ DOMAIN parse.routing = 1..m
            /\ \A i \in 1..(k - 1) : parse.routing[i] = Parts[i]
            /\ \A i \in (k + 1)..m : parse.routing[i] = Parts[n - (m - i)]
            /\ parse.routing[k] = Dotted(SubSeq(Parts, k, n - (m - k)))
    /\ Cardinality(MultiAt) = 0 /\ Len(Parts) = Len(parse.ref) =>
         /\ ~parse.threw
         /\ DOMAIN parse.routing = 1..Len(parse.ref)
         /\ \A i \in 1..Len(parse.ref) : parse.routing[i] = Parts[i]

\* C19 witness: a key of three dot-parts was parsed against a reference with
\* the multipleWords entry first; it received the first two dot-parts.
C19_Witness ==
  /\ parse.pc = "done"
  /\ parse.ref = <<TRUE, FALSE>>
  /\ Len(Parts) = 3
  /\ parse.routing[1] = Parts[1] \o <<".">> \o Parts[2]
  /\ parse.routing[2] = Parts[3]

\* C20: every dial uses the connection string the credential provider
\* yielded most recently.
C20_DialsLatestCredentials ==
  [][\A c \in Conns : dialed'[c] # dialed[c] => dialed'[c] = yielded]_vars

\* C21 (as claimed): a stop() of the consumer that found it running returns,
\* and calls close() on the channel, only with the in-flight counter at zero,
\* and a running handler is ended by nothing but its own completion.
C21_StopWaitsForHandlers ==
  [][/\ shut[StopId].pc # "done" /\ shut'[StopId].pc = "done" => processingMessages' = 0
     /\ shut[StopId].pc # "close" /\ shut'[StopId].pc = "close" => processingMessages' = 0
     /\ \A m \in Msgs, k \in Slots :
          del[m][k].st = "running" /\ del'[m][k].st # "running" => last'.m = m]_vars

\* A Connection that was retired while its dial was in progress.
RetiredWhileDialing(c) ==
  Len(log[c]) >= 2 /\ log[c][1] = "dial" /\ log[c][2] = "retiring"

\* C22: a Connection retired while its dial is in progress is never connected
\* and never emits connected, and a handle its dial returns later is closed
\* and is not stored as the Connection's amqp handle.
C22_LateDialDiscarded ==
  \A c \in Conns : RetiredWhileDialing(c) =>
    /\ state[c] \in {"retiring", "finished"}
    /\ \A i \in 1..Len(log[c]) : log[c][i] # "connected"
    /\ amqp[c] = "null"
    /\ late[c] \in {"none", "closed"}

\* C22 witness: the dial of a Connection retired while dialing has resolved,
\* before the Connection finished.
C22_Witness ==
  \E c \in Conns :
    /\ RetiredWhileDialing(c)
    /\ late[c] = "closed"
    /\ state[c] = "retiring"

\* C23 (as claimed): a run of the consume callback in which something other
\* than the user's handler threw (_handleMessage before it called the handler,
\* or ack/nack) reported the error once and called conn.failed(), and what
\* _handleMessage threw before the handler led to no nack.
C23_InternalFailureReported ==
  last.m # Null /\ (last.internal \/ last.threw2) =>
    /\ last.reported = 1
    /\ last.failed
    /\ last.internal => last.acts = <<>>

\* C24: the consumer emits no error event in a step that leaves the manager
\* stopped; in particular not when stop() retires the Connection an
\* exclusive-queue consumer is set up on.
C24_NoErrorWhenStopped ==
  [][~running' => errors' = errors]_vars

\* C24 witness: the manager is stopped, and the `retiring` listeners of an
\* exclusive-queue consumer have run for a Connection without an error for it:
\* it was retired by stop().
C24_Witness ==
  \E c \in Conns :
    /\ ~running
    /\ Truthy(exclusiveQueue)
    /\ hc[c] = "done"
    /\ shut[c].pc # "none"
    /\ state[c] = "retiring"
    /\ \A e \in errors : e.conn # c

\* C25 (as claimed): the queue _handleConnection declares and consumes from
\* has the name of the queue start() declared and bound.
C25_OneQueuePerStart ==
  \A c \in Conns :
    hc[c] \in {"consume", "done"} /\ queues.start # NoQueue => queues.hc[c] = queues.start

\* The manager's list holds ids in strictly decreasing order, and holds a
\* Connection from its creation until it emits finished.
ListedNewestFirst ==
  /\ \A i, j \in 1..Len(connections) : i < j => connections[i] > connections[j]
  /\ {connections[i] : i \in 1..Len(connections)}
       = {c \in Conns : state[c] \notin {"absent", "finished"}}

\* C26 (as claimed): the list never holds more than two Connections, is
\* ordered newest first, and loses a Connection when it emits finished.
C26_AtMostTwoListed ==
  Len(connections) <= 2 /\ ListedNewestFirst

\* C26 (amended): the list is ordered newest first and holds exactly the
\* Connections created and not finished; all but the newest are retiring. Its
\* length is not bounded by two: every recycle() adds one, and one leaves only
\* a retirement delay after it was retired.
C26_ListedUntilFinished ==
  /\ ListedNewestFirst
  /\ \A i \in 2..Len(connections) : state[connections[i]] = "retiring"

\* C26 witness: three Connections are listed, two of them retiring.
C26_Witness ==
  /\ connections = <<3, 2, 1>>
  /\ state[1] = "retiring" /\ state[2] = "retiring"
  /\ state[3] = "waiting"

\* The state changes of a Connection the claim lists, and the one of a
\* Connection retired before its connect timer fired.
ClaimedChanges ==
  {<<"waiting", "connecting">>, <<"connecting", "connected">>,
   <<"connected", "retiring">>, <<"connecting", "retiring">>,
   <<"retiring", "finished">>}
RetiredWaiting == <<"waiting", "retiring">>

\* C27 (as claimed): every state change of a Connection is one of the five.
C27_OnlyClaimedChanges ==
  [][\A c \in Conns :
       state[c] # "absent" /\ state'[c] # state[c]
         => <<state[c], state'[c]>> \in ClaimedChanges]_vars

\* C27 (amended): every state change of a Connection is one of the five or
\* waiting to retiring; so the state never moves backwards and finished is
\* terminal.
C27_OnlyForwardChanges ==
  [][\A c \in Conns :
       state[c] # "absent" /\ state'[c] # state[c]
         => <<state[c], state'[c]>> \in ClaimedChanges \cup {RetiredWaiting}]_vars

\* C27 witness: one Connection went all the way from waiting to finished, and
\* the next was retired while waiting.
C27_Witness ==
  /\ log[1] = <<"dial", "connected", "retiring", "finished">>
  /\ state[1] = "finished"
  /\ log[2] = <<"retiring">>
  /\ state[2] = "retiring"

\* The runs of the consume callback that have started and not completed.
Running == {<<m, k>> \in Msgs \X Slots : del[m][k].st = "running"}

\* C28: the in-flight counter is the number of runs of the consume callback
\* that have started and not completed (so it is never negative and every
\* run, whatever its outcome, counts once up and once down), and a _shutdown()
\* run waiting for idle is resumed only with the counter at zero.
C28_CounterIsRunning ==
  /\ [](processingMessages = Cardinality(Running) /\ processingMessages >= 0)
  /\ [][\A i \in ShutIds :
          shut[i].pc = "idle" /\ shut'[i].pc # "idle" => processingMessages' = 0]_vars

\* C28 witness: a run of the callback has just completed through the outer
\* catch (its ack or nack threw) while another run is still in progress.
C28_Witness ==
  /\ last.m # Null
  /\ last.threw2
  /\ processingMessages = 1
  /\ Cardinality(Running) = 1

\* The consumer is running and subscribed on the manager's current
\* Connection c, and no setup of another Connection is in progress.
SubscribedOnCurrent(c) ==
  /\ pqRunning
  /\ running
  /\ Len(connections) > 0 /\ Head(connections) = c /\ state[c] = "connected"
  /\ hc[c] = "done"
  /\ consumerOn[c]
  /\ chan[c] = "open"
  /\ \A d \in Conns \ {c} : hc[d] \notin {"setup", "consume"}

\* C29 (as claimed): while the consumer stays running and subscribed on the
\* manager's current Connection, with that subscription's channel and
\* consumer tag stored, no step (in particular none of the deferred shutdown
\* of an older Connection's channel) clears or replaces them.
C29_ShutdownKeepsNewer ==
  [][\A c \in Conns :
       /\ SubscribedOnCurrent(c)
       /\ channel = c /\ consumerTag = c
       /\ SubscribedOnCurrent(c)'
       => channel' = c /\ consumerTag' = c]_vars

====
